---- MODULE Spec2Model ----
(***************************************************************************)
(* A model of the toraheval evaluation harness: the target and evaluator   *)
(* registries, the HTTP-proxy, direct-model, template and multi-phase      *)
(* agent targets, the CSV-to-JSON dataset builder and the experiment       *)
(* runner.                                                                 *)
(*                                                                         *)
(* Each component has its own specification (SpecRegistry, SpecProxy,      *)
(* SpecDirect, SpecAgent, SpecDataset, SpecTemplate, SpecRunner).  A       *)
(* component's variables hold the state of its current invocation; the     *)
(* variables of the other components stay at their idle values.            *)
(***************************************************************************)
EXTENDS Integers, Sequences, FiniteSets, TLC

VARIABLES
    lookup,     \* registries: the last lookup call and how it ended
    px,         \* HTTP-proxy target: the current invocation
    dm,         \* direct-model target: the current invocation
    tpl,        \* template target: the current invocation
    rows,       \* dataset builder: the rows csv.DictReader yields
    dataset,    \* dataset builder: the list convert_csv_to_json builds
    jsonfile,   \* dataset builder: the characters written by json.dump
    reparsed,   \* dataset builder: the file read back
    dpc,        \* dataset builder: position in the conversion
    pc,         \* agent target: position in the invocation
    question,   \* agent target: inputs["question"]
    world,      \* agent target: what the simulated tool server answers
    channel,    \* agent target: the stdio subprocess channel
    session,    \* agent target: the ClientSession
    connects,   \* agent target: number of connect() calls of the invocation
    closes,     \* agent target: number of close() calls of the invocation
    failures,   \* agent target: failed tool calls so far in the invocation
    refs,       \* agent target: references_to_read
    search_results,       \* agent target: phase 1 evidence
    full_texts,           \* agent target: phase 2 evidence
    commentaries_to_read, \* agent target: references read successfully
    commentaries_list,    \* agent target: phase 3 and 4 evidence
    idx,        \* agent target: loop index of the running phase
    cpos,       \* agent target: inner loop index (commentary texts)
    calls,      \* agent target: the tool calls issued, in order
    evidence,   \* agent target: what ituria_agent_search returned
    llm,        \* agent target: the final model call
    answer,     \* agent target: the record ituria_like_target returns
    proc,       \* experiment runner: the running langsmith_evaluation.py process
    service,    \* experiment runner: the tracking service's named dataset
    runs        \* experiment runner: processes started so far

regVars == <<lookup>>
proxyVars == <<px>>
directVars == <<dm>>
templateVars == <<tpl>>
datasetVars == <<rows, dataset, jsonfile, reparsed, dpc>>
agentVars == <<pc, question, world, channel, session, connects, closes,
               failures, refs, search_results, full_texts,
               commentaries_to_read, commentaries_list, idx, cpos, calls,
               evidence, llm, answer>>
runnerVars == <<proc, service, runs>>
vars == <<lookup, px, dm, tpl, rows, dataset, jsonfile, reparsed, dpc,
          pc, question, world, channel, session, connects, closes,
          failures, refs, search_results, full_texts,
          commentaries_to_read, commentaries_list, idx, cpos, calls,
          evidence, llm, answer, proc, service, runs>>

----------------------------------------------------------------------------
(* Sequences and strings.  A string the code inspects is a sequence of     *)
(* one-character strings; a string it only passes on is a TLA+ string.     *)

Range(s) == {s[i] : i \in DOMAIN s}

SeqsUpTo(S, n) == UNION {[1..k -> S] : k \in 0..n}

RECURSIVE Concat(_)
Concat(ss) == IF ss = <<>> THEN <<>> ELSE Head(ss) \o Concat(Tail(ss))

\* s[i..] starts with sub
StartsAt(s, sub, i) ==
    /\ i + Len(sub) - 1 <= Len(s)
    /\ \A k \in 1..Len(sub) : s[i + k - 1] = sub[k]

\* Python's `sub in s` on strings
Contains(s, sub) == \E i \in 1..(Len(s) + 1) : StartsAt(s, sub, i)

\* the characters str.strip() removes among those the model uses
Whitespace == {" ", "\n"}

RECURSIVE LStrip(_)
LStrip(s) ==
    IF s # <<>> /\ Head(s) \in Whitespace THEN LStrip(Tail(s)) ELSE s

RECURSIVE RStrip(_)
RStrip(s) ==
    IF s # <<>> /\ s[Len(s)] \in Whitespace
    THEN RStrip(SubSeq(s, 1, Len(s) - 1))
    ELSE s

\* str.strip()
Strip(s) == RStrip(LStrip(s))

----------------------------------------------------------------------------
(* The registries (src/targets/__init__.py, src/evaluators.py).            *)

\* The dict literals, as the ordered sequences of (key, value) they are.
TARGET_FUNCTIONS ==
    << [name |-> "anthropic_sonnet", fn |-> "anthropic_torah_qa"],
       [name |-> "anthropic_haiku",  fn |-> "anthropic_torah_qa_haiku"],
       [name |-> "simple_template",  fn |-> "simple_template_response"],
       [name |-> "ituria_js_api",    fn |-> "ituria_js_api_target"] >>

EVALUATOR_FUNCTIONS ==
    << [name |-> "correctness",     fn |-> "correctness_evaluator"],
       [name |-> "helpfulness",     fn |-> "helpfulness_evaluator"],
       [name |-> "torah_citations", fn |-> "torah_citation_evaluator"],
       [name |-> "hebrew_handling", fn |-> "hebrew_handling_evaluator"],
       [name |-> "depth_analysis",  fn |-> "depth_analysis_evaluator"] >>

\* dict.keys(), dict.values(), `name in d`, d[name]
Keys(d) == [i \in DOMAIN d |-> d[i].name]
Values(d) == [i \in DOMAIN d |-> d[i].fn]
HasKey(d, name) == \E i \in DOMAIN d : d[i].name = name
Get(d, name) == d[CHOOSE i \in DOMAIN d : d[i].name = name].fn

\* sep.join(names), as the sequence of its pieces
RECURSIVE Join(_, _)
Join(sep, names) ==
    IF Len(names) = 0 THEN <<>>
    ELSE IF Len(names) = 1 THEN names
    ELSE <<Head(names), sep>> \o Join(sep, Tail(names))

list_target_functions == Keys(TARGET_FUNCTIONS)
list_evaluators == Keys(EVALUATOR_FUNCTIONS)

\* A call's end: it returned `value` (a sequence of callables) or raised a
\* ValueError whose message is the concatenation of `error`.
Returned(v) == [status |-> "returned", value |-> v, error |-> <<>>]
Raised(msg) == [status |-> "raised", value |-> <<>>, error |-> msg]

\* A lookup that falls back to the default target.
get_target_function_fallback(name) ==
    IF ~HasKey(TARGET_FUNCTIONS, name)
    THEN Returned(<<Get(TARGET_FUNCTIONS, "anthropic_sonnet")>>)
    ELSE Returned(<<Get(TARGET_FUNCTIONS, name)>>)

get_target_function(name) ==
    IF ~HasKey(TARGET_FUNCTIONS, name)
    THEN Raised(<<"Target function '", name, "' not found. Available: ">>
                \o Join(", ", Keys(TARGET_FUNCTIONS)))
    ELSE Returned(<<Get(TARGET_FUNCTIONS, name)>>)

\* The loop of get_evaluators over names[i..], `evaluators` built so far.
RECURSIVE EvaluatorsLoop(_, _, _)
EvaluatorsLoop(names, i, evaluators) ==
    IF i > Len(names) THEN Returned(evaluators)
    ELSE IF ~HasKey(EVALUATOR_FUNCTIONS, names[i])
    THEN Raised(<<"Evaluator '", names[i], "' not found. Available: ">>
                \o Join(", ", Keys(EVALUATOR_FUNCTIONS)))
    ELSE EvaluatorsLoop(names, i + 1,
                        Append(evaluators, Get(EVALUATOR_FUNCTIONS, names[i])))

\* names is [none |-> TRUE] for None, else [none |-> FALSE, list |-> <<..>>]
None == [none |-> TRUE, list |-> <<>>]
List(l) == [none |-> FALSE, list |-> l]

\* A batch lookup that walks the registry and keeps what is asked for.
RECURSIVE RegistryOrder(_, _)
RegistryOrder(names, i) ==
    IF i > Len(EVALUATOR_FUNCTIONS) THEN <<>>
    ELSE (IF EVALUATOR_FUNCTIONS[i].name \in Range(names)
          THEN <<EVALUATOR_FUNCTIONS[i].fn>> ELSE <<>>)
         \o RegistryOrder(names, i + 1)
get_evaluators_registry_order(names) ==
    IF names.none
    THEN Returned(Values(EVALUATOR_FUNCTIONS))
    ELSE IF \E i \in DOMAIN names.list :
                ~HasKey(EVALUATOR_FUNCTIONS, names.list[i])
    THEN EvaluatorsLoop(names.list, 1, <<>>)
    ELSE Returned(RegistryOrder(names.list, 1))

get_evaluators(names) ==
    IF names.none
    THEN Returned(Values(EVALUATOR_FUNCTIONS))
    ELSE EvaluatorsLoop(names.list, 1, <<>>)

\* The names a caller may pass: the registered ones and some that are not.
MaxNames == 3
TargetNameInputs ==
    Range(Keys(TARGET_FUNCTIONS)) \cup {"ituria_like", "anthropic_js_api", ""}
EvaluatorNameInputs ==
    Range(Keys(EVALUATOR_FUNCTIONS)) \cup {"accuracy", ""}

LookupIdle ==
    [op |-> "none", name |-> "", names |-> None, result |-> Returned(<<>>)]

CallGetTargetFunction(name) ==
    /\ lookup.op = "none"
    /\ UNCHANGED <<proxyVars, directVars, templateVars, datasetVars, agentVars, runnerVars>>
    /\ lookup' = [op |-> "get_target_function", name |-> name,
                  names |-> None, result |-> get_target_function(name)]

CallGetEvaluators(names) ==
    /\ lookup.op = "none"
    /\ UNCHANGED <<proxyVars, directVars, templateVars, datasetVars, agentVars, runnerVars>>
    /\ lookup' = [op |-> "get_evaluators", name |-> "",
                  names |-> names, result |-> get_evaluators(names)]

----------------------------------------------------------------------------
(* The template-lookup target (src/targets/simple_target.py).              *)

UpperLetters ==
    <<"A", "B", "C", "D", "E", "F", "G", "H", "I", "J", "K", "L", "M",
      "N", "O", "P", "Q", "R", "S", "T", "U", "V", "W", "X", "Y", "Z">>
LowerLetters ==
    <<"a", "b", "c", "d", "e", "f", "g", "h", "i", "j", "k", "l", "m",
      "n", "o", "p", "q", "r", "s", "t", "u", "v", "w", "x", "y", "z">>

LowerChar(c) ==
    IF \E i \in DOMAIN UpperLetters : UpperLetters[i] = c
    THEN LowerLetters[CHOOSE i \in DOMAIN UpperLetters : UpperLetters[i] = c]
    ELSE c
UpperChar(c) ==
    IF \E i \in DOMAIN LowerLetters : LowerLetters[i] = c
    THEN UpperLetters[CHOOSE i \in DOMAIN LowerLetters : LowerLetters[i] = c]
    ELSE c

\* str.lower(), str.upper()
Lower(s) == [i \in DOMAIN s |-> LowerChar(s[i])]
Upper(s) == [i \in DOMAIN s |-> UpperChar(s[i])]

KwDivreiYoel == <<"d", "i", "v", "r", "e", "i", " ", "y", "o", "e", "l">>
KwDivreyYoel == <<"d", "i", "v", "r", "e", "y", " ", "y", "o", "e", "l">>
KwMoses == <<"m", "o", "s", "e", "s">>
KwMoshe == <<"m", "o", "s", "h", "e">>
KwPrayer == <<"p", "r", "a", "y", "e", "r">>
KwTefillah == <<"t", "e", "f", "i", "l", "l", "a", "h">>

DivreiYoelAnswer ==
    "This question relates to Divrei Yoel, a collection of Hasidic teachings. I would need to consult the specific text to provide an accurate answer."
MosesAnswer ==
    "This question concerns Moses (Moshe Rabbenu), the greatest of the prophets and leader of the Jewish people."
PrayerAnswer ==
    "This relates to Jewish prayer and spiritual practice. Prayer is a fundamental aspect of Jewish worship."
FallbackAnswer ==
    "This appears to be a Torah-related question that would require careful study of the relevant sources to answer properly."

\* The if/elif chain over the already lowercased question.
TemplateChain(q) ==
    IF Contains(q, KwDivreiYoel) \/ Contains(q, KwDivreyYoel)
    THEN DivreiYoelAnswer
    ELSE IF Contains(q, KwMoses) \/ Contains(q, KwMoshe)
    THEN MosesAnswer
    ELSE IF Contains(q, KwPrayer) \/ Contains(q, KwTefillah)
    THEN PrayerAnswer
    ELSE FallbackAnswer

\* A target that tests the question as it is written.
simple_template_response_cased(inputs) ==
    IF ~inputs.has
    THEN [status |-> "raised", answer |-> "KeyError: 'question'"]
    ELSE [status |-> "returned", answer |-> TemplateChain(inputs.question)]

\* inputs is [has |-> whether the "question" key is there, question |-> ..]
simple_template_response(inputs) ==
    IF ~inputs.has
    THEN [status |-> "raised", answer |-> "KeyError: 'question'"]
    ELSE [status |-> "returned",
          answer |-> TemplateChain(Lower(inputs.question))]

\* The questions asked: up to MaxFragments fragments, one after the other.
MaxFragments == 3
Fragments ==
    { <<"W", "h", "o", " ", "w", "a", "s", " ">>,
      <<"M", "o", "s", "e", "s">>,
      <<"?">>,
      <<"M", "O", "S", "H", "E">>,
      <<"D", "i", "v", "r", "e", "i", " ", "Y", "o", "e", "l">>,
      <<"d", "i", "v", "r", "e", "y", " ">>,
      <<"y", "o", "e", "l">>,
      <<"P", "r", "a", "y", "e", "r">>,
      <<"T", "e", "f", "i", "l", "l", "a", "h">> }
TemplateQuestions == {Concat(fs) : fs \in SeqsUpTo(Fragments, MaxFragments)}
WhoWasMoses == <<"W", "h", "o", " ", "w", "a", "s", " ", "M", "o", "s", "e", "s", "?">>

TemplateIdle ==
    [inputs |-> [has |-> FALSE, question |-> <<>>],
     status |-> "idle", answer |-> ""]

CallSimpleTemplate(inputs) ==
    /\ tpl.status = "idle"
    /\ UNCHANGED <<regVars, proxyVars, directVars, datasetVars, agentVars, runnerVars>>
    /\ tpl' = [inputs |-> inputs,
               status |-> simple_template_response(inputs).status,
               answer |-> simple_template_response(inputs).answer]

----------------------------------------------------------------------------
(* The HTTP-proxy targets (src/targets/ituria_js_api_target.py,            *)
(* src/targets/anthropic_js_api_target.py).                                *)

\* An answer value: a Python str, given by the pieces it is formatted from,
\* or a Python tuple of strs, given by its elements.
Str(parts) == [type |-> "str", parts |-> parts]
Tuple(parts) == [type |-> "tuple", parts |-> parts]

\* What a target call ends with: a returned record or a raised exception.
Record(ans, usage) ==
    [status |-> "returned", answer |-> ans, usage_metadata |-> usage,
     raised |-> "none"]
Raise(exc) ==
    [status |-> "raised", answer |-> Str(<<>>), usage_metadata |-> "absent",
     raised |-> exc]
NoResult ==
    [status |-> "none", answer |-> Str(<<>>), usage_metadata |-> "absent",
     raised |-> "none"]

\* inputs dicts: with or without the "question" key
Questions == {"q1", "q2", "q3"}
Inputs ==
    {[has |-> FALSE, question |-> ""]}
    \cup {[has |-> TRUE, question |-> q] : q \in Questions}

ProxyTargets == {"ituria_js_api_target", "anthropic_js_api_target"}
HTTPStatus_OK == 200
ProxyUrl(t) ==
    IF t = "ituria_js_api_target" THEN "http://localhost:8333/chat"
    ELSE "http://localhost:8334/chat"
ProxyTimeout(t) == IF t = "ituria_js_api_target" THEN 1800 ELSE 300

\* What requests.post does: it raises an exception, given by the classes the
\* except clauses test it against, or it returns a response.
PostExceptions ==
    {[kind |-> "exception", isConnectionError |-> c, isTimeout |-> t,
      str |-> "boom"] : c \in BOOLEAN, t \in BOOLEAN}
StatusCodes == {200, 201, 404, 500}
StatusStr(code) ==
    CASE code = 200 -> "200" [] code = 201 -> "201"
      [] code = 404 -> "404" [] code = 500 -> "500"
\* response.json(): it raises, or it is a dict that may hold "answer" and
\* "usage_metadata"
JsonBodies ==
    {[valid |-> FALSE, hasAnswer |-> FALSE, answer |-> "", hasUsage |-> FALSE]}
    \cup {[valid |-> TRUE, hasAnswer |-> FALSE, answer |-> "", hasUsage |-> u]
            : u \in BOOLEAN}
    \cup {[valid |-> TRUE, hasAnswer |-> TRUE, answer |-> a, hasUsage |-> u]
            : a \in {"an answer", ""}, u \in BOOLEAN}
PostResponses ==
    {[kind |-> "response", status_code |-> c, text |-> "body", json |-> j]
        : c \in StatusCodes, j \in JsonBodies}
PostOutcomes == PostExceptions \cup PostResponses

\* The except clauses, in the order written.
ituria_js_api_except(exc) ==
    IF exc.isConnectionError
    THEN Record(Tuple(<<"Error: Could not connect to Ituria JavaScript API server. ",
                        "Make sure it's running on localhost:8333 (PORT=8333 npm start)">>),
                "absent")
    ELSE IF exc.isTimeout
    THEN Record(Str(<<"Error: API request timed out (exceeded 30 min.)">>),
                "absent")
    ELSE Record(Str(<<"Error: ", exc.str>>), "absent")

anthropic_js_api_except(exc) ==
    IF exc.isConnectionError
    THEN Record(Str(<<"Error: Could not connect to Anthropic JavaScript API server. ",
                      "Make sure it's running on localhost:8334 (PORT=8334 npm start)">>),
                "absent")
    ELSE IF exc.isTimeout
    THEN Record(Str(<<"Error: API request timed out (exceeded 5 min.)">>),
                "absent")
    ELSE Record(Str(<<"Error: ", exc.str>>), "absent")

JsonError == [isConnectionError |-> FALSE, isTimeout |-> FALSE,
              str |-> "Expecting value"]
KeyErrorAnswer == [isConnectionError |-> FALSE, isTimeout |-> FALSE,
                   str |-> "'answer'"]

\* The body of the try block once requests.post has ended with `out`.
ituria_js_api_try(out) ==
    IF out.kind = "exception" THEN ituria_js_api_except(out)
    ELSE IF out.status_code = HTTPStatus_OK
    THEN IF ~out.json.valid THEN ituria_js_api_except(JsonError)
         ELSE IF ~out.json.hasAnswer THEN ituria_js_api_except(KeyErrorAnswer)
         ELSE Record(Str(<<out.json.answer>>), "absent")
    ELSE Record(Str(<<"API Error ", StatusStr(out.status_code), ": ", out.text>>),
                "absent")

anthropic_js_api_try(out) ==
    IF out.kind = "exception" THEN anthropic_js_api_except(out)
    ELSE IF out.status_code = HTTPStatus_OK
    THEN IF ~out.json.valid THEN anthropic_js_api_except(JsonError)
         ELSE IF ~out.json.hasAnswer THEN anthropic_js_api_except(KeyErrorAnswer)
         ELSE Record(Str(<<out.json.answer>>),
                     IF out.json.hasUsage THEN "present" ELSE "absent")
    ELSE Record(Str(<<"API Error ", StatusStr(out.status_code), ": ", out.text>>),
                "absent")

ProxyIdle ==
    [pc |-> "idle", target |-> "none", inputs |-> [has |-> FALSE, question |-> ""],
     tracing |-> FALSE, posts |-> <<>>, outcome |-> [kind |-> "none"],
     result |-> NoResult]

\* The call up to requests.post: question = inputs["question"] (outside the
\* try), the headers, the request sent.
ProxyInvoke(t, inputs, tracing) ==
    /\ px.pc = "idle"
    /\ UNCHANGED <<regVars, directVars, templateVars, datasetVars, agentVars, runnerVars>>
    /\ px' = IF ~inputs.has
             THEN [ProxyIdle EXCEPT !.pc = "done", !.target = t,
                       !.inputs = inputs, !.tracing = tracing,
                       !.result = Raise("KeyError: 'question'")]
             ELSE [ProxyIdle EXCEPT !.pc = "posted", !.target = t,
                       !.inputs = inputs, !.tracing = tracing,
                       !.posts = <<[url |-> ProxyUrl(t),
                                    json |-> [question |-> inputs.question],
                                    headers |-> IF tracing
                                                THEN {"Content-Type", "langsmith-trace"}
                                                ELSE {"Content-Type"},
                                    timeout |-> ProxyTimeout(t)]>>]

\* requests.post ends with `out`; the target returns.
ProxyReturn(out) ==
    /\ px.pc = "posted"
    /\ UNCHANGED <<regVars, directVars, templateVars, datasetVars, agentVars, runnerVars>>
    /\ px' = [px EXCEPT !.pc = "done",
                 !.outcome = out,
                 !.result = IF px.target = "ituria_js_api_target"
                            THEN ituria_js_api_try(out)
                            ELSE anthropic_js_api_try(out)]

----------------------------------------------------------------------------
(* The direct-model targets (src/targets/anthropic_targets.py).            *)

DirectTargets == {"anthropic_torah_qa", "anthropic_torah_qa_haiku"}
DirectModel(t) ==
    IF t = "anthropic_torah_qa" THEN "claude-3-5-sonnet-20241022"
    ELSE "claude-3-haiku-20240307"
DirectMaxTokens == 1000

\* The texts a model replies with: up to MaxReply characters.
MaxReply == 2
ReplyChars == {"a", " "}
Replies == SeqsUpTo(ReplyChars, MaxReply)

\* What anthropic_client.messages.create does: it raises, or it returns a
\* response whose content list is empty, or starts with a block that has a
\* text attribute, or with one that has none (str(content) is its repr).
ModelOutcomes ==
    {[kind |-> "raises", exc |-> e, text |-> <<>>]
        : e \in {"APIConnectionError", "RateLimitError", "AuthenticationError"}}
    \cup {[kind |-> "empty", exc |-> "none", text |-> <<>>]}
    \cup {[kind |-> "text", exc |-> "none", text |-> r] : r \in Replies}
    \cup {[kind |-> "other", exc |-> "none", text |-> r] : r \in Replies}

\* An answer of characters, as a returned record.
Answer(chars) ==
    [status |-> "returned", answer |-> chars, raised |-> "none"]
Propagate(exc) ==
    [status |-> "raised", answer |-> <<>>, raised |-> exc]

\* The statements after messages.create ended with `out`: no try encloses
\* the call, so what it raises leaves the target.
anthropic_torah_qa(out) ==
    IF out.kind = "raises" THEN Propagate(out.exc)
    ELSE IF out.kind = "empty" THEN Propagate("IndexError")
    ELSE Answer(Strip(out.text))

anthropic_torah_qa_haiku(out) ==
    IF out.kind = "raises" THEN Propagate(out.exc)
    ELSE IF out.kind = "empty" THEN Propagate("IndexError")
    ELSE Answer(Strip(out.text))

DirectIdle ==
    [pc |-> "idle", target |-> "none", inputs |-> [has |-> FALSE, question |-> ""],
     requests |-> <<>>, outcome |-> [kind |-> "none"],
     result |-> [status |-> "none", answer |-> <<>>, raised |-> "none"]]

\* The call up to messages.create; inputs["question"] is read while the
\* arguments are built.
DirectInvoke(t, inputs) ==
    /\ dm.pc = "idle"
    /\ UNCHANGED <<regVars, proxyVars, templateVars, datasetVars, agentVars, runnerVars>>
    /\ dm' = IF ~inputs.has
             THEN [DirectIdle EXCEPT !.pc = "done", !.target = t,
                       !.inputs = inputs,
                       !.result = Propagate("KeyError: 'question'")]
             ELSE [DirectIdle EXCEPT !.pc = "called", !.target = t,
                       !.inputs = inputs,
                       !.requests = <<[model |-> DirectModel(t),
                                       max_tokens |-> DirectMaxTokens,
                                       content |-> inputs.question]>>]

DirectReturn(out) ==
    /\ dm.pc = "called"
    /\ UNCHANGED <<regVars, proxyVars, templateVars, datasetVars, agentVars, runnerVars>>
    /\ dm' = [dm EXCEPT !.pc = "done",
                 !.outcome = out,
                 !.result = IF dm.target = "anthropic_torah_qa"
                            THEN anthropic_torah_qa(out)
                            ELSE anthropic_torah_qa_haiku(out)]

----------------------------------------------------------------------------
(* The dataset builder (src/dataset/convert_csv_to_json.py) and the read   *)
(* of its file (src/langsmith_evaluation.py).                              *)

\* A cell of a csv.DictReader row: None (the row is short, or the column is
\* not in the header) or a string of characters.
NoCell == [some |-> FALSE, v |-> <<>>]
Cell(v) == [some |-> TRUE, v |-> v]
\* Python truthiness of row.get(key)
Truthy(cell) == cell.some /\ cell.v # <<>>

QueryCells ==
    {NoCell, Cell(<<>>), Cell(<<" ">>), Cell(<<" ", "\"", "a", " ">>)}
TypeCells == {NoCell, Cell(<<"1">>), Cell(<<"2">>)}
TargetCells == {NoCell, Cell(<<>>), Cell(<<"b", "\\", "n", "\n">>)}
SourceCells == {NoCell, Cell(<<"s", " ">>)}
CsvRows ==
    [query : QueryCells, type : TypeCells, target : TargetCells,
     source : SourceCells]
MaxRows == 2

\* A loop without the query type test.
Skipped_any_type(row) == ~Truthy(row.query) \/ ~Truthy(row.target)

\* The two `continue` tests of the loop.
Skipped(row) ==
    \/ ~Truthy(row.query) \/ ~Truthy(row.target)
    \/ row.type # Cell(<<"1">>)

\* The entry the loop appends for a row it keeps.
Entry(row) ==
    [question |-> Strip(row.query.v),
     answer |-> Strip(row.target.v)
                \o (IF Truthy(row.source) THEN <<"\n", "\n">> \o row.source.v
                    ELSE <<>>)]

\* json.dump(dataset, ensure_ascii=False): the characters of the file, without
\* the indentation a JSON reader skips.
\* An encoder that leaves the backslash as it is.
EscapeChar_raw_backslash(c) ==
    CASE c = "\"" -> <<"\\", "\"">>
      [] c = "\n" -> <<"\\", "n">>
      [] OTHER -> <<c>>

EscapeChar(c) ==
    CASE c = "\"" -> <<"\\", "\"">>
      [] c = "\\" -> <<"\\", "\\">>
      [] c = "\n" -> <<"\\", "n">>
      [] OTHER -> <<c>>
RECURSIVE Escape(_)
Escape(str) ==
    IF str = <<>> THEN <<>> ELSE EscapeChar(Head(str)) \o Escape(Tail(str))
EncodeString(str) == <<"\"">> \o Escape(str) \o <<"\"">>

EntryOpen == <<"{", "\"", "i", "n", "p", "u", "t", "s", "\"", ":", "{", "\"", "q", "u", "e", "s", "t", "i", "o", "n", "\"", ":">>
EntryMiddle == <<"}", ",", "\"", "o", "u", "t", "p", "u", "t", "s", "\"", ":", "{", "\"", "a", "n", "s", "w", "e", "r", "\"", ":">>
EntryClose == <<"}", "}">>
EncodeEntry(e) ==
    EntryOpen \o EncodeString(e.question) \o EntryMiddle
    \o EncodeString(e.answer) \o EntryClose

RECURSIVE EncodeEntries(_)
EncodeEntries(ds) ==
    IF ds = <<>> THEN <<>>
    ELSE IF Len(ds) = 1 THEN EncodeEntry(ds[1])
    ELSE EncodeEntry(ds[1]) \o <<",">> \o EncodeEntries(Tail(ds))
Dumps(ds) == <<"[">> \o EncodeEntries(ds) \o <<"]">>

\* json.load: the reader of that file.
UnescapeChar(c) == IF c = "n" THEN "\n" ELSE c
\* the string literal whose characters start at f[i], after its opening quote
RECURSIVE ScanString(_, _, _)
ScanString(f, i, acc) ==
    IF f[i] = "\"" THEN [val |-> acc, next |-> i + 1]
    ELSE IF f[i] = "\\"
    THEN ScanString(f, i + 2, Append(acc, UnescapeChar(f[i + 1])))
    ELSE ScanString(f, i + 1, Append(acc, f[i]))
\* the entry that starts at f[i]
ParseEntry(f, i) ==
    LET q == ScanString(f, i + Len(EntryOpen) + 1, <<>>)
        a == ScanString(f, q.next + Len(EntryMiddle) + 1, <<>>)
    IN  [val |-> [question |-> q.val, answer |-> a.val],
         next |-> a.next + Len(EntryClose)]
RECURSIVE ParseEntries(_, _, _)
ParseEntries(f, i, acc) ==
    IF f[i] = "]" THEN acc
    ELSE IF f[i] = "," THEN ParseEntries(f, i + 1, acc)
    ELSE LET e == ParseEntry(f, i)
         IN  ParseEntries(f, e.next, Append(acc, e.val))
Loads(f) == ParseEntries(f, 2, <<>>)

\* One turn of `for row in reader`: the row is skipped or its entry appended.
ReadRow(row) ==
    /\ dpc = "reading"
    /\ Len(rows) < MaxRows
    /\ rows' = Append(rows, row)
    /\ dataset' = IF Skipped(row) THEN dataset ELSE Append(dataset, Entry(row))
    /\ UNCHANGED <<jsonfile, reparsed, dpc>>
    /\ UNCHANGED <<regVars, proxyVars, directVars, templateVars, agentVars, runnerVars>>

\* The reader is exhausted: the dataset is written and returned.
SaveJson ==
    /\ dpc = "reading"
    /\ jsonfile' = Dumps(dataset)
    /\ dpc' = "saved"
    /\ UNCHANGED <<rows, dataset, reparsed>>
    /\ UNCHANGED <<regVars, proxyVars, directVars, templateVars, agentVars, runnerVars>>

\* langsmith_evaluation.py reads dataset/Q1-dataset.json back.
LoadJson ==
    /\ dpc = "saved"
    /\ reparsed' = Loads(jsonfile)
    /\ dpc' = "loaded"
    /\ UNCHANGED <<rows, dataset, jsonfile>>
    /\ UNCHANGED <<regVars, proxyVars, directVars, templateVars, agentVars, runnerVars>>

----------------------------------------------------------------------------
(* The multi-phase agent target (src/targets/ituria_target.py).            *)

Min(a, b) == IF a < b THEN a ELSE b
\* Python's s[:n]
\* A slice that keeps everything.
Take_all(s, n) == s
Take(s, n) == SubSeq(s, 1, Min(n, Len(s)))

\* keyword_mapping, in the order of the dict literal; the Hebrew values are
\* written in Latin letters here.
keyword_mapping ==
    << [english |-> <<"p", "r", "a", "y", "e", "r">>, hebrew |-> "tefillah"],
       [english |-> <<"s", "h", "a", "b", "b", "a", "t">>, hebrew |-> "shabbat"],
       [english |-> <<"s", "a", "b", "b", "a", "t", "h">>, hebrew |-> "shabbat"],
       [english |-> <<"k", "a", "s", "h", "e", "r">>, hebrew |-> "kasher"],
       [english |-> <<"k", "o", "s", "h", "e", "r">>, hebrew |-> "kasher"],
       [english |-> <<"s", "t", "u", "d", "y">>, hebrew |-> "limud"],
       [english |-> <<"t", "o", "r", "a", "h">>, hebrew |-> "torah"],
       [english |-> <<"t", "a", "l", "m", "u", "d">>, hebrew |-> "talmud"],
       [english |-> <<"r", "a", "b", "b", "i">>, hebrew |-> "rav"],
       [english |-> <<"s", "y", "n", "a", "g", "o", "g", "u", "e">>, hebrew |-> "beit knesset"],
       [english |-> <<"m", "o", "s", "e", "s">>, hebrew |-> "moshe"],
       [english |-> <<"l", "a", "w">>, hebrew |-> "halakhah"],
       [english |-> <<"e", "t", "h", "i", "c", "s">>, hebrew |-> "musar"],
       [english |-> <<"b", "u", "s", "i", "n", "e", "s", "s">>, hebrew |-> "masa umatan"],
       [english |-> <<"c", "h", "a", "r", "i", "t", "y">>, hebrew |-> "tzedakah"],
       [english |-> <<"b", "l", "e", "s", "s", "i", "n", "g">>, hebrew |-> "berakhah"],
       [english |-> <<"h", "o", "l", "i", "d", "a", "y">>, hebrew |-> "chag"],
       [english |-> <<"f", "a", "s", "t">>, hebrew |-> "tzom"],
       [english |-> <<"m", "a", "r", "r", "i", "a", "g", "e">>, hebrew |-> "nisuin"],
       [english |-> <<"d", "i", "v", "o", "r", "c", "e">>, hebrew |-> "gerushin"] >>

RECURSIVE MatchedTerms(_, _)
MatchedTerms(query_lower, i) ==
    IF i > Len(keyword_mapping) THEN <<>>
    ELSE (IF Contains(query_lower, keyword_mapping[i].english)
          THEN <<keyword_mapping[i].hebrew>> ELSE <<>>)
         \o MatchedTerms(query_lower, i + 1)

\* The string returned, as the pieces it is joined from.
convert_to_hebrew_keywords(english_query) ==
    LET hebrew_terms == MatchedTerms(Lower(english_query), 1)
    IN  IF hebrew_terms # <<>> THEN Join(" AND ", hebrew_terms)
        ELSE <<"halakhah OR musar OR torah">>

\* The questions put to the agent.
AgentQuestions ==
    { <<"W", "h", "o", " ", "w", "a", "s", " ", "M", "o", "s", "e", "s", "?">>,
      <<"w", "h", "y">> }

\* The caps written in ituria_agent_search.
SemanticLimit == 20
KeywordsNumResults == 40
TopHits == 5
MaxReferences == 8
MaxCommentaryRefs == 5
TopCommentaries == 2

\* The simulated tool server.  A reference is a positive number; an item of
\* a result's content without a "reference" key is 0.
NoReference == 0
MaxHits == 6
MaxCommHits == 3
HitLengths == {0, 2, MaxHits}
\* the content lists a search returns
Hits(n, pattern) ==
    [i \in 1..n |->
        CASE pattern = "distinct" -> i
          [] pattern = "same" -> 1
          [] pattern = "gaps" -> IF i % 2 = 1 THEN i ELSE NoReference
          [] pattern = "fresh" -> 100 + i]
ListPayload(items) == [shape |-> "list", items |-> items]
SemanticPayloads ==
    {[shape |-> "error", items |-> <<>>],
     [shape |-> "nocontent", items |-> <<>>],
     [shape |-> "notlist", items |-> <<>>]}
    \cup {ListPayload(Hits(n, p)) :
            n \in HitLengths, p \in {"distinct", "same", "gaps"}}
KeywordsPayloads ==
    {[shape |-> "error", items |-> <<>>],
     [shape |-> "nocontent", items |-> <<>>]}
    \cup {ListPayload(Hits(n, p)) : n \in HitLengths, p \in {"distinct", "fresh"}}
\* the j-th commentary on reference r
CommRef(r, j) == 1000 * j + r
\* get_commentaries: every call fails, or each returns n commentary items
CommentaryModes == {-1} \cup (0..MaxCommHits)
\* the references whose read_text fails
BadRefSets == (SUBSET {1, 2}) \cup {{CommRef(1, 1)}, {2, CommRef(1, 2)}}
\* the tool whose results cannot be processed: json.dumps of them raises
Tools == {"semantic_search", "keywords_search", "read_text", "get_commentaries"}
Worlds ==
    [semantic : SemanticPayloads, keywords : KeywordsPayloads,
     commentaries : CommentaryModes, badRefs : BadRefSets,
     unserializable : {"none"} \cup Tools]
NoWorld ==
    [semantic |-> [shape |-> "error", items |-> <<>>],
     keywords |-> [shape |-> "error", items |-> <<>>],
     commentaries |-> -1, badRefs |-> {}, unserializable |-> "none"]

\* The client methods: {"error": ...} when the call fails (call_tool raised),
\* else {"result": result}.
semantic_search(w) == w.semantic
keywords_search(w) == w.keywords
read_text(w, reference) ==
    IF reference \in w.badRefs THEN [shape |-> "error", items |-> <<>>]
    ELSE [shape |-> "text", items |-> <<>>]
get_commentaries(w, reference) ==
    IF w.commentaries < 0 THEN [shape |-> "error", items |-> <<>>]
    ELSE ListPayload([j \in 1..w.commentaries |-> CommRef(reference, j)])

\* `"error" not in result`
IsOk(result) == result.shape # "error"

\* The references taken from a result: for item in content[:n], those with
\* a "reference" key, when "content" is there and is a list.
RECURSIVE WithReference(_)
WithReference(items) ==
    IF items = <<>> THEN <<>>
    ELSE (IF Head(items) # NoReference THEN <<Head(items)>> ELSE <<>>)
         \o WithReference(Tail(items))
ExtractReferences(result, n) ==
    IF result.shape = "list" THEN WithReference(Take(result.items, n))
    ELSE <<>>

\* What ituria_agent_search returns or raises.
NoEvidence ==
    [kind |-> "none", search_results |-> <<>>, full_texts |-> <<>>,
     commentaries |-> <<>>]
FailedToConnect == [NoEvidence EXCEPT !.kind = "failed_to_connect"]
Raising == [NoEvidence EXCEPT !.kind = "exception"]
Blob(sr, ft, cl) ==
    [kind |-> "blob", search_results |-> sr, full_texts |-> ft,
     commentaries |-> cl]

NoLlm ==
    [called |-> FALSE, prompt |-> NoEvidence, outcome |-> "none",
     reply |-> <<>>]
NoAnswer == [status |-> "none", kind |-> "none", text |-> <<>>]

otherThanAgent ==
    <<regVars, proxyVars, directVars, templateVars, datasetVars, runnerVars>>

\* ituria_like_target(inputs) up to asyncio.run(ituria_agent_search(question)):
\* the client is built, nothing is connected.
AgentInvoke(q) ==
    /\ pc = "idle"
    /\ question' = q
    /\ pc' = "connect"
    /\ UNCHANGED <<world, channel, session, connects, closes, failures, refs,
                   search_results, full_texts, commentaries_to_read,
                   commentaries_list, idx, cpos, calls, evidence, llm, answer>>
    /\ UNCHANGED otherThanAgent

\* client.connect(): stdio_client(...).__aenter__(), then
\* ClientSession(...).__aenter__(), then session.initialize(); what any of
\* them raises is printed and connect returns False.  `how` is the step that
\* raises, or "ok".  On False ituria_agent_search returns its message: the
\* try block whose finally closes the client is not entered.
ConnectOutcomes == {"ok", "stdio_client", "ClientSession", "initialize"}

\* The context manager stdio_client(...) returns is a temporary: connect()
\* keeps the two streams and drops the manager, and nothing in the target
\* ever exits it.  What becomes of the subprocess channel when asyncio.run
\* ends is the event loop's doing (it closes the generators left suspended)
\* and may or may not release it.
Finalize(ch) == IF ch = "open" THEN {"open", "finalized"} ELSE {ch}
Connect(how, w) ==
    /\ pc = "connect"
    /\ connects' = connects + 1
    /\ channel' \in IF how = "stdio_client" THEN {channel}
                   ELSE IF how = "ok" THEN {"open"}
                   ELSE Finalize("open")
    /\ session' = IF how \in {"ok", "initialize"} THEN "connected" ELSE session
    /\ IF how = "ok"
       THEN /\ world' = w
            /\ pc' = "semantic"
            /\ UNCHANGED evidence
       ELSE /\ world' = world
            /\ evidence' = FailedToConnect
            /\ pc' = "llm"
    /\ UNCHANGED <<question, closes, failures, refs, search_results,
                   full_texts, commentaries_to_read, commentaries_list, idx,
                   cpos, calls, llm, answer>>
    /\ UNCHANGED otherThanAgent

\* A tool call as issued: the tool, the reference or the search text asked
\* for, the result count asked for.
ToolCall(tool, reference, text, limit) ==
    [tool |-> tool, reference |-> reference, text |-> text, limit |-> limit]

\* An exception inside the try block of ituria_agent_search: the finally
\* clause runs next, then the exception leaves asyncio.run.
RaiseInPhase ==
    /\ evidence' = Raising
    /\ pc' = "finally"

\* Phase 1, first half: client.semantic_search(query, limit=20).
SemanticSearch ==
    /\ pc = "semantic"
    /\ calls' = Append(calls, ToolCall("semantic_search", NoReference,
                                        question, SemanticLimit))
    /\ LET semantic_result == semantic_search(world)
       IN  IF ~IsOk(semantic_result)
           THEN /\ failures' = failures + 1
                /\ pc' = "keywords"
                /\ UNCHANGED <<search_results, refs, evidence>>
           ELSE IF world.unserializable = "semantic_search"
           THEN /\ RaiseInPhase
                /\ UNCHANGED <<failures, search_results, refs>>
           ELSE /\ search_results' = Append(search_results, "semantic")
                /\ refs' = refs \o ExtractReferences(semantic_result, TopHits)
                /\ pc' = "keywords"
                /\ UNCHANGED <<failures, evidence>>
    /\ UNCHANGED <<question, world, channel, session, connects, closes,
                   full_texts, commentaries_to_read, commentaries_list, idx,
                   cpos, llm, answer>>
    /\ UNCHANGED otherThanAgent

\* Phase 1, second half: client.keywords_search(hebrew_keywords, ...,
\* num_results=40), when hebrew_keywords is not empty.
KeywordsSearch ==
    /\ pc = "keywords"
    /\ LET hebrew_keywords == convert_to_hebrew_keywords(question)
           keywords_result == keywords_search(world)
       IN  IF hebrew_keywords = <<>>
           THEN /\ pc' = "read" /\ idx' = 1
                /\ UNCHANGED <<calls, failures, search_results, refs, evidence>>
           ELSE /\ calls' = Append(calls, ToolCall("keywords_search", NoReference,
                                                    hebrew_keywords,
                                                    KeywordsNumResults))
                /\ IF ~IsOk(keywords_result)
                   THEN /\ failures' = failures + 1
                        /\ pc' = "read" /\ idx' = 1
                        /\ UNCHANGED <<search_results, refs, evidence>>
                   ELSE IF world.unserializable = "keywords_search"
                   THEN /\ RaiseInPhase
                        /\ UNCHANGED <<failures, search_results, refs, idx>>
                   ELSE /\ search_results' = Append(search_results, "keywords")
                        /\ refs' = refs \o ExtractReferences(keywords_result,
                                                             TopHits)
                        /\ pc' = "read" /\ idx' = 1
                        /\ UNCHANGED <<failures, evidence>>
    /\ UNCHANGED <<question, world, channel, session, connects, closes,
                   full_texts, commentaries_to_read, commentaries_list, cpos,
                   llm, answer>>
    /\ UNCHANGED otherThanAgent

\* A failed read that raises inside the phase instead of being skipped.
ReadFailed_abort ==
    /\ RaiseInPhase
    /\ UNCHANGED <<failures, full_texts, commentaries_to_read, idx>>

\* `if "error" not in text_result` is false: nothing is appended and the
\* loop goes on with the next reference.
ReadFailed ==
    /\ failures' = failures + 1
    /\ idx' = idx + 1
    /\ UNCHANGED <<full_texts, commentaries_to_read, evidence, pc>>

\* The commentary references read when the slice is not taken.
CommentaryRefs_all(w, ref) ==
    ExtractReferences(get_commentaries(w, ref), MaxCommHits)

\* Phase 2: one turn of `for ref in references_to_read[:8]`.
ReadText ==
    /\ pc = "read"
    /\ idx <= Len(Take(refs, MaxReferences))
    /\ LET ref == refs[idx]
           text_result == read_text(world, ref)
       IN  /\ calls' = Append(calls, ToolCall("read_text", ref, <<>>, 0))
           /\ IF ~IsOk(text_result)
              THEN ReadFailed
              ELSE IF world.unserializable = "read_text"
              THEN /\ RaiseInPhase
                   /\ UNCHANGED <<failures, full_texts, commentaries_to_read, idx>>
              ELSE /\ full_texts' = Append(full_texts, ref)
                   /\ commentaries_to_read' = Append(commentaries_to_read, ref)
                   /\ idx' = idx + 1
                   /\ UNCHANGED <<failures, evidence, pc>>
    /\ UNCHANGED <<question, world, channel, session, connects, closes, refs,
                   search_results, commentaries_list, cpos, llm, answer>>
    /\ UNCHANGED otherThanAgent

\* The loop of phase 2 is exhausted.
ReadDone ==
    /\ pc = "read"
    /\ idx > Len(Take(refs, MaxReferences))
    /\ pc' = "commentaries"
    /\ idx' = 1
    /\ UNCHANGED <<question, world, channel, session, connects, closes,
                   failures, refs, search_results, full_texts,
                   commentaries_to_read, commentaries_list, cpos, calls,
                   evidence, llm, answer>>
    /\ UNCHANGED otherThanAgent

\* The commentary references read for reference `ref`:
\* content[:2], those with a "reference" key.
CommentaryRefs(w, ref) ==
    ExtractReferences(get_commentaries(w, ref), TopCommentaries)

\* A get_commentaries call that raises inside a phase instead of being
\* skipped.
CommentariesFailed_abort ==
    /\ RaiseInPhase
    /\ UNCHANGED <<failures, commentaries_list, idx, cpos>>

\* `if "error" not in commentaries_result` is false: nothing is appended and
\* the loop goes on with the next reference.
CommentariesFailed ==
    /\ failures' = failures + 1
    /\ idx' = idx + 1
    /\ UNCHANGED <<commentaries_list, cpos, evidence, pc>>

\* Phase 3: one turn of `for ref in commentaries_to_read[:5]`, up to its
\* inner loop.
GetCommentaries ==
    /\ pc = "commentaries"
    /\ idx <= Len(Take(commentaries_to_read, MaxCommentaryRefs))
    /\ LET ref == commentaries_to_read[idx]
           commentaries_result == get_commentaries(world, ref)
       IN  /\ calls' = Append(calls, ToolCall("get_commentaries", ref, <<>>, 0))
           /\ IF ~IsOk(commentaries_result)
              THEN CommentariesFailed
              ELSE IF world.unserializable = "get_commentaries"
              THEN /\ RaiseInPhase
                   /\ UNCHANGED <<failures, commentaries_list, idx, cpos>>
              ELSE /\ commentaries_list' =
                          Append(commentaries_list,
                                 [kind |-> "commentaries", reference |-> ref])
                   /\ IF CommentaryRefs(world, ref) = <<>>
                      THEN /\ idx' = idx + 1
                           /\ UNCHANGED <<cpos, pc>>
                      ELSE /\ cpos' = 1
                           /\ pc' = "commentary_text"
                           /\ UNCHANGED idx
                   /\ UNCHANGED <<failures, evidence>>
    /\ UNCHANGED <<question, world, channel, session, connects, closes, refs,
                   search_results, full_texts, commentaries_to_read, llm,
                   answer>>
    /\ UNCHANGED otherThanAgent

\* Phase 4: one turn of `for commentary in content[:2]`.
ReadCommentaryText ==
    /\ pc = "commentary_text"
    /\ LET crefs == CommentaryRefs(world, commentaries_to_read[idx])
           commentary_ref == crefs[cpos]
           commentary_text == read_text(world, commentary_ref)
           last == cpos = Len(crefs)
       IN  /\ calls' = Append(calls, ToolCall("read_text", commentary_ref, <<>>, 0))
           /\ IF IsOk(commentary_text) /\ world.unserializable = "read_text"
              THEN /\ RaiseInPhase
                   /\ UNCHANGED <<failures, commentaries_list, idx, cpos>>
              ELSE /\ IF IsOk(commentary_text)
                      THEN /\ commentaries_list' =
                                  Append(commentaries_list,
                                         [kind |-> "commentary_text",
                                          reference |-> commentary_ref])
                           /\ UNCHANGED failures
                      ELSE /\ failures' = failures + 1
                           /\ UNCHANGED commentaries_list
                   /\ pc' = IF last THEN "commentaries" ELSE pc
                   /\ idx' = IF last THEN idx + 1 ELSE idx
                   /\ cpos' = IF last THEN 0 ELSE cpos + 1
                   /\ UNCHANGED evidence
    /\ UNCHANGED <<question, world, channel, session, connects, closes, refs,
                   search_results, full_texts, commentaries_to_read, llm,
                   answer>>
    /\ UNCHANGED otherThanAgent

\* The loops are exhausted: `return json.dumps(all_results, ...)`, whose
\* finally clause runs next.
Compile ==
    /\ pc = "commentaries"
    /\ idx > Len(Take(commentaries_to_read, MaxCommentaryRefs))
    /\ evidence' = Blob(search_results, full_texts, commentaries_list)
    /\ pc' = "finally"
    /\ UNCHANGED <<question, world, channel, session, connects, closes,
                   failures, refs, search_results, full_texts,
                   commentaries_to_read, commentaries_list, idx, cpos, calls,
                   llm, answer>>
    /\ UNCHANGED otherThanAgent

\* finally: await client.close().  close() exits the session when there is
\* one; for the stdio channel it does nothing (`pass`).  What __aexit__
\* raises is printed and swallowed.  ituria_agent_search then ends, and
\* asyncio.run with it.
Close ==
    /\ pc = "finally"
    /\ closes' = closes + 1
    /\ session' = IF session = "connected" THEN "closed" ELSE session
    /\ channel' \in Finalize(channel)
    /\ pc' = IF evidence.kind = "exception" THEN "except" ELSE "llm"
    /\ UNCHANGED <<question, world, connects, failures, refs, search_results,
                   full_texts, commentaries_to_read, commentaries_list, idx,
                   cpos, calls, evidence, llm, answer>>
    /\ UNCHANGED otherThanAgent

\* What the final model call does: llm.invoke raises (or building the
\* client does, or response.content has no strip), or it replies a text.
LlmReplies == {<<"a">>, <<" ", "a", "\n">>, <<" ">>}
LlmOutcomes ==
    {[kind |-> "raises", text |-> <<>>]} \cup {[kind |-> "text", text |-> r] : r \in LlmReplies}

ErrorAnswer(e) ==
    [status |-> "returned", kind |-> "error",
     text |-> <<"Error processing question: ", e,
                ". The MCP server connection may be unavailable.">>]

\* The rest of the try block of ituria_like_target: the prompt is built
\* from whatever ituria_agent_search returned, the model is called, its
\* stripped reply is the answer.
FinalCall(out) ==
    /\ pc = "llm"
    /\ llm' = [called |-> TRUE, prompt |-> evidence, outcome |-> out.kind,
               reply |-> out.text]
    /\ answer' = IF out.kind = "raises" THEN ErrorAnswer("llm error")
                 ELSE [status |-> "returned", kind |-> "llm",
                       text |-> Strip(out.text)]
    /\ pc' = "done"
    /\ UNCHANGED <<question, world, channel, session, connects, closes,
                   failures, refs, search_results, full_texts,
                   commentaries_to_read, commentaries_list, idx, cpos, calls,
                   evidence>>
    /\ UNCHANGED otherThanAgent

\* except Exception as e: what left asyncio.run becomes the answer.
CatchError ==
    /\ pc = "except"
    /\ answer' = ErrorAnswer("phase error")
    /\ pc' = "done"
    /\ UNCHANGED <<question, world, channel, session, connects, closes,
                   failures, refs, search_results, full_texts,
                   commentaries_to_read, commentaries_list, idx, cpos, calls,
                   evidence, llm>>
    /\ UNCHANGED otherThanAgent

----------------------------------------------------------------------------
(* The experiment runner (src/langsmith_evaluation.py): the module-level   *)
(* dataset setup against the tracking service, then the command line.      *)
(* One process is one run; the tracking service outlives the processes.    *)

MIN_ARGUMENTS_FOR_EVAL == 2
dataset_name == "Torah Evaluation Dataset Type 1 - Updated"
NoDataset == 0

\* The service holds at most one dataset of a name: `id` is its identifier,
\* `created` counts the datasets ever created under the name.
NoService == [exists |-> FALSE, id |-> NoDataset, examples |-> FALSE, created |-> 0]

\* sys.argv past the script name: `n` arguments, the first the target name
\* (or "list"), the second the comma-separated evaluator names as the
\* sequence of its tokens (names and ",").
Argv(n, first, second) == [n |-> n, first |-> first, second |-> second]

\* str.split(","), the piece in progress in `cur`
RECURSIVE SplitFrom(_, _, _)
SplitFrom(tokens, i, cur) ==
    IF i > Len(tokens) THEN <<cur>>
    ELSE IF tokens[i] = "," THEN <<cur>> \o SplitFrom(tokens, i + 1, "")
    ELSE SplitFrom(tokens, i + 1, cur \o tokens[i])
Split(tokens) == SplitFrom(tokens, 1, "")

MaxRuns == 2
MaxPieces == 2
CliTargetArgs == {"list", "anthropic_sonnet", "simple_template", "ituria_like"}
CliEvaluatorPieces == {"correctness", "depth_analysis", "accuracy", ""}
CliEvaluatorArgs ==
    {Join(",", l) : l \in SeqsUpTo(CliEvaluatorPieces, MaxPieces) \ {<<>>}}
CliArgvs ==
    {Argv(0, "", <<>>)}
    \cup {Argv(1, t, <<>>) : t \in CliTargetArgs}
    \cup {Argv(2, t, e) : t \in CliTargetArgs, e \in CliEvaluatorArgs}

NoProcess ==
    [pc |-> "none", argv |-> Argv(0, "", <<>>), dataset |-> NoDataset,
     target_name |-> "", evaluator_names |-> <<>>,
     target_function |-> <<>>, evaluators |-> <<>>,
     stdout |-> <<>>, exit |-> -1, uncaught |-> "", evaluate |-> <<>>]

\* print(...): one more line on standard output, a line being its pieces
PrintLine(p, line) == [p EXCEPT !.stdout = Append(@, line)]
\* sys.exit(status)
SysExit(p, status) == [p EXCEPT !.pc = "exited", !.exit = status]
\* An exception nothing catches ends the process with status 1.
Uncaught(p, exc) == [p EXCEPT !.pc = "exited", !.exit = 1, !.uncaught = exc]

\* python langsmith_evaluation.py ...: the imports, Client(), the dataset
\* file loaded.
StartProcess(argv) ==
    /\ proc.pc \in {"none", "exited"}
    /\ runs < MaxRuns
    /\ runs' = runs + 1
    /\ proc' = [NoProcess EXCEPT !.pc = "setup", !.argv = argv]
    /\ UNCHANGED service
    /\ UNCHANGED <<regVars, proxyVars, directVars, templateVars, datasetVars,
                   agentVars>>

\* client.create_dataset(dataset_name=...): a name already taken is refused,
\* and any call to the service may fail (`fails`).
CreateDatasetRaises(svc, fails) == svc.exists \/ fails
CreateDataset(svc) ==
    [svc EXCEPT !.exists = TRUE, !.id = svc.created + 1,
                !.examples = FALSE, !.created = @ + 1]
\* client.create_examples(dataset_id=..., examples=...)
CreateExamples(svc) == [svc EXCEPT !.examples = TRUE]

\* A lookup that never finds the dataset.
FindByName_none(svc) == NoDataset
\* next((d for d in client.list_datasets() if d.name == dataset_name), None)
FindByName(svc) == IF svc.exists THEN svc.id ELSE NoDataset

\* The except branch of the setup: the message, then the dataset looked up
\* by name in the list; `listFails` is list_datasets() raising.
DatasetLookup(p, svc, listFails) ==
    LET q == PrintLine(p, <<"Dataset might already exist: ">>) IN
    IF listFails THEN Uncaught(q, "list_datasets")
    ELSE IF FindByName(svc) = NoDataset
    THEN Uncaught([q EXCEPT !.dataset = NoDataset],
                  "Could not create or find dataset")
    ELSE [q EXCEPT !.dataset = FindByName(svc), !.pc = "main"]

\* The module-level try/except: create the dataset and add the examples,
\* or find the dataset by name.
DatasetSetup(createFails, examplesFail, listFails) ==
    /\ proc.pc = "setup"
    /\ IF CreateDatasetRaises(service, createFails)
       THEN /\ service' = service
            /\ proc' = DatasetLookup(proc, service, listFails)
       ELSE /\ service' = IF examplesFail THEN CreateDataset(service)
                          ELSE CreateExamples(CreateDataset(service))
            /\ proc' =
                 LET p == [proc EXCEPT !.dataset = CreateDataset(service).id] IN
                 IF examplesFail
                 THEN DatasetLookup(p, CreateDataset(service), listFails)
                 ELSE [PrintLine(p, <<"Created new dataset with ID: ">>)
                          EXCEPT !.pc = "main"]
    /\ UNCHANGED runs
    /\ UNCHANGED <<regVars, proxyVars, directVars, templateVars, datasetVars,
                   agentVars>>

\* if __name__ == "__main__": the defaults and the command line.
ParseArguments ==
    /\ proc.pc = "main"
    /\ proc' =
         IF proc.argv.n + 1 > 1 /\ proc.argv.first = "list"
         THEN SysExit(
                PrintLine(PrintLine(PrintLine(PrintLine(proc,
                    <<"Available target functions:">>),
                    list_target_functions),
                    <<"Available evaluators:">>),
                    list_evaluators), 0)
         ELSE [proc EXCEPT
                 !.pc = "target",
                 !.target_name = IF proc.argv.n + 1 > 1 THEN proc.argv.first
                                 ELSE "anthropic_sonnet",
                 !.evaluator_names =
                     IF proc.argv.n + 1 > MIN_ARGUMENTS_FOR_EVAL
                     THEN Split(proc.argv.second)
                     ELSE <<"correctness">>]
    /\ UNCHANGED <<service, runs>>
    /\ UNCHANGED <<regVars, proxyVars, directVars, templateVars, datasetVars,
                   agentVars>>

\* A handler that reports the error and goes on.
ConfigError_swallowed(p, error, hint) ==
    [PrintLine(PrintLine(p, <<"Error: ">> \o error), <<hint>>)
        EXCEPT !.pc = IF p.pc = "target" THEN "evaluators" ELSE "evaluate"]
\* except ValueError as e: two lines printed, sys.exit(1)
ConfigError(p, error, hint) ==
    SysExit(PrintLine(PrintLine(p, <<"Error: ">> \o error), <<hint>>), 1)

\* target_function = get_target_function(target_name)
ResolveTarget ==
    /\ proc.pc = "target"
    /\ proc' =
         LET r == get_target_function(proc.target_name) IN
         IF r.status = "raised"
         THEN ConfigError(proc, r.error,
                "Use 'python langsmith_evaluation.py list' to see available functions")
         ELSE [PrintLine(proc, <<"Using target function: ", proc.target_name>>)
                  EXCEPT !.pc = "evaluators", !.target_function = r.value]
    /\ UNCHANGED <<service, runs>>
    /\ UNCHANGED <<regVars, proxyVars, directVars, templateVars, datasetVars,
                   agentVars>>

\* evaluators = get_evaluators(evaluator_names)
ResolveEvaluators ==
    /\ proc.pc = "evaluators"
    /\ proc' =
         LET r == get_evaluators(List(proc.evaluator_names)) IN
         IF r.status = "raised"
         THEN ConfigError(proc, r.error,
                "Use 'python langsmith_evaluation.py list' to see available evaluators")
         ELSE [PrintLine(proc, <<"Using evaluators: ">>
                                   \o Join(", ", proc.evaluator_names))
                  EXCEPT !.pc = "evaluate", !.evaluators = r.value]
    /\ UNCHANGED <<service, runs>>
    /\ UNCHANGED <<regVars, proxyVars, directVars, templateVars, datasetVars,
                   agentVars>>

\* client.evaluate(target_function, data=dataset_name, evaluators=...,
\* experiment_prefix=...): the experiment runs or the call raises.
Evaluate(raises) ==
    /\ proc.pc = "evaluate"
    /\ proc' =
         LET p == [PrintLine(proc, <<"Starting evaluation...">>)
                      EXCEPT !.evaluate =
                          Append(@, [target_function |-> proc.target_function,
                                     data |-> dataset_name,
                                     dataset |-> proc.dataset,
                                     evaluators |-> proc.evaluators,
                                     experiment_prefix |->
                                         <<"torah-eval-", proc.target_name>>])]
         IN IF raises THEN Uncaught(p, "evaluate")
            ELSE SysExit(PrintLine(PrintLine(p, <<"Evaluation complete! Results: ">>),
                             <<"Check the LangSmith UI for detailed results.">>), 0)
    /\ UNCHANGED <<service, runs>>
    /\ UNCHANGED <<regVars, proxyVars, directVars, templateVars, datasetVars,
                   agentVars>>

----------------------------------------------------------------------------
(* The specifications: one per component.                                  *)

RegistryIdle == lookup = LookupIdle
ProxyIsIdle == px = ProxyIdle
DirectIsIdle == dm = DirectIdle
TemplateIsIdle == tpl = TemplateIdle
DatasetIdle ==
    /\ rows = <<>> /\ dataset = <<>> /\ jsonfile = <<>> /\ reparsed = <<>>
    /\ dpc = "reading"
AgentIdle ==
    /\ pc = "idle" /\ question = <<>> /\ world = NoWorld
    /\ channel = "unopened" /\ session = "disconnected"
    /\ connects = 0 /\ closes = 0 /\ failures = 0
    /\ refs = <<>> /\ search_results = <<>> /\ full_texts = <<>>
    /\ commentaries_to_read = <<>> /\ commentaries_list = <<>>
    /\ idx = 0 /\ cpos = 0 /\ calls = <<>>
    /\ evidence = NoEvidence /\ llm = NoLlm /\ answer = NoAnswer

RunnerIdle == proc = NoProcess /\ service = NoService /\ runs = 0

Init ==
    /\ RegistryIdle /\ ProxyIsIdle /\ DirectIsIdle /\ TemplateIsIdle
    /\ DatasetIdle /\ AgentIdle /\ RunnerIdle

\* get_target_function(name)
LookupTarget == \E name \in TargetNameInputs : CallGetTargetFunction(name)
\* get_evaluators() and get_evaluators(None)
LookupAllEvaluators == CallGetEvaluators(None)
\* get_evaluators([...])
LookupEvaluators ==
    /\ lookup.op = "none"
    /\ \E l \in SeqsUpTo(EvaluatorNameInputs, MaxNames) : CallGetEvaluators(List(l))
NextRegistry == LookupTarget \/ LookupAllEvaluators \/ LookupEvaluators
SpecRegistry == Init /\ [][NextRegistry]_vars

ProxyCall ==
    \E t \in ProxyTargets, inputs \in Inputs, tracing \in BOOLEAN :
        ProxyInvoke(t, inputs, tracing)
ProxyPostEnds == \E out \in PostOutcomes : ProxyReturn(out)
NextProxy == ProxyCall \/ ProxyPostEnds
SpecProxy == Init /\ [][NextProxy]_vars

DirectCall == \E t \in DirectTargets, inputs \in Inputs : DirectInvoke(t, inputs)
DirectCreateEnds == \E out \in ModelOutcomes : DirectReturn(out)
NextDirect == DirectCall \/ DirectCreateEnds
SpecDirect == Init /\ [][NextDirect]_vars

TemplateCallNoQuestion ==
    CallSimpleTemplate([has |-> FALSE, question |-> <<>>])
TemplateCall ==
    /\ tpl.status = "idle"
    /\ \E q \in TemplateQuestions :
        CallSimpleTemplate([has |-> TRUE, question |-> q])
NextTemplate == TemplateCallNoQuestion \/ TemplateCall
SpecTemplate == Init /\ [][NextTemplate]_vars

ReadAnyRow ==
    /\ dpc = "reading" /\ Len(rows) < MaxRows
    /\ \E row \in CsvRows : ReadRow(row)
NextDataset == ReadAnyRow \/ SaveJson \/ LoadJson
SpecDataset == Init /\ [][NextDataset]_vars

\* The guards are repeated ahead of the inputs, which are drawn only where
\* the action can fire.
AgentCall == pc = "idle" /\ \E q \in AgentQuestions : AgentInvoke(q)
AgentConnect ==
    /\ pc = "connect"
    /\ \E how \in ConnectOutcomes, w \in Worlds : Connect(how, w)
AgentFinalCall == pc = "llm" /\ \E out \in LlmOutcomes : FinalCall(out)
NextAgent ==
    \/ AgentCall \/ AgentConnect
    \/ SemanticSearch \/ KeywordsSearch
    \/ ReadText \/ ReadDone
    \/ GetCommentaries \/ ReadCommentaryText
    \/ Compile \/ Close
    \/ AgentFinalCall \/ CatchError
SpecAgent == Init /\ [][NextAgent]_vars

StartRun ==
    /\ proc.pc \in {"none", "exited"} /\ runs < MaxRuns
    /\ \E argv \in CliArgvs : StartProcess(argv)
SetUpDataset ==
    /\ proc.pc = "setup"
    /\ \E createFails \in BOOLEAN, examplesFail \in BOOLEAN, listFails \in BOOLEAN :
           DatasetSetup(createFails, examplesFail, listFails)
RunExperiment == proc.pc = "evaluate" /\ \E raises \in BOOLEAN : Evaluate(raises)
NextRunner ==
    \/ StartRun \/ SetUpDataset \/ ParseArguments
    \/ ResolveTarget \/ ResolveEvaluators \/ RunExperiment
SpecRunner == Init /\ [][NextRunner]_vars

----------------------------------------------------------------------------
(* The claims.                                                             *)

RegisteredTargets == Range(Keys(TARGET_FUNCTIONS))
RegisteredEvaluators == Range(Keys(EVALUATOR_FUNCTIONS))
\* the first position of `names` that holds no registered evaluator, or 0
FirstUnknown(names) ==
    IF \A i \in DOMAIN names : names[i] \in RegisteredEvaluators THEN 0
    ELSE CHOOSE i \in DOMAIN names :
             /\ names[i] \notin RegisteredEvaluators
             /\ \A k \in 1..(i - 1) : names[k] \in RegisteredEvaluators

\* C1: a lookup of a name that is not registered raises an error whose
\* message names the name asked for and every registered name, and returns
\* nothing: get_target_function for a name outside TARGET_FUNCTIONS,
\* get_evaluators at the first name outside EVALUATOR_FUNCTIONS.
C1_UnknownNameRaises ==
    /\ (lookup.op = "get_target_function" /\ lookup.name \notin RegisteredTargets)
         => /\ lookup.result.status = "raised"
            /\ lookup.result.value = <<>>
            /\ lookup.name \in Range(lookup.result.error)
            /\ RegisteredTargets \subseteq Range(lookup.result.error)
    /\ (lookup.op = "get_evaluators" /\ ~lookup.names.none
            /\ FirstUnknown(lookup.names.list) # 0)
         => /\ lookup.result.status = "raised"
            /\ lookup.result.value = <<>>
            /\ lookup.names.list[FirstUnknown(lookup.names.list)]
                   \in Range(lookup.result.error)
            /\ RegisteredEvaluators \subseteq Range(lookup.result.error)
    /\ (lookup.op = "get_target_function" /\ lookup.name \in RegisteredTargets)
         => lookup.result.status = "returned"

\* C1's case: get_evaluators raises at an unknown name that follows
\* registered ones.
C1_Witness ==
    /\ lookup.op = "get_evaluators"
    /\ lookup.result.status = "raised"
    /\ Len(lookup.names.list) = 3
    /\ FirstUnknown(lookup.names.list) = 3

\* the evaluator registered under `name` is `fn`
RegisteredAs(name, fn) ==
    \E i \in DOMAIN EVALUATOR_FUNCTIONS :
        EVALUATOR_FUNCTIONS[i] = [name |-> name, fn |-> fn]
AllEvaluators ==
    <<"correctness_evaluator", "helpfulness_evaluator",
      "torah_citation_evaluator", "hebrew_handling_evaluator",
      "depth_analysis_evaluator">>
\* one evaluator per name, in the order given
OnePerName(names, value) ==
    /\ Len(value) = Len(names)
    /\ \A i \in DOMAIN names : RegisteredAs(names[i], value[i])

\* C2 as stated: get_evaluators(names) returns every registered evaluator
\* when names is None or an empty list, and otherwise the evaluators of the
\* given names, one per name, in the order given.
C2_EmptyOrAbsentGivesAll ==
    (lookup.op = "get_evaluators")
      => IF lookup.names.none \/ lookup.names.list = <<>>
         THEN lookup.result = Returned(AllEvaluators)
         ELSE FirstUnknown(lookup.names.list) = 0
                => /\ lookup.result.status = "returned"
                   /\ OnePerName(lookup.names.list, lookup.result.value)

\* C2 amended: get_evaluators(names) returns every registered evaluator
\* when names is None; for a list of registered names, the empty list
\* included, it returns one evaluator per name, in the order given (for the
\* empty list, the empty list).
C2_AbsentGivesAll ==
    (lookup.op = "get_evaluators")
      => IF lookup.names.none
         THEN lookup.result = Returned(AllEvaluators)
         ELSE FirstUnknown(lookup.names.list) = 0
                => /\ lookup.result.status = "returned"
                   /\ OnePerName(lookup.names.list, lookup.result.value)

\* C2's case: three registered names, not in the registry's order, one of
\* them twice.
C2_Witness ==
    /\ lookup.op = "get_evaluators"
    /\ lookup.names = List(<<"depth_analysis", "correctness", "depth_analysis">>)
    /\ lookup.result.status = "returned"

\* the failure an HTTP-proxy invocation met, or "none"
ProxyFailure ==
    IF px.pc # "done" \/ ~px.inputs.has THEN "none"
    ELSE IF px.outcome.kind = "exception"
    THEN (IF px.outcome.isConnectionError THEN "connection"
          ELSE IF px.outcome.isTimeout THEN "timeout" ELSE "none")
    ELSE IF px.outcome.status_code \notin 200..299 THEN "status"
    ELSE "none"
\* the answer is one string with `piece` in it
IsStringWith(ans, pieces) ==
    /\ ans.type = "str"
    /\ \E i \in DOMAIN ans.parts : ans.parts[i] \in pieces

\* C3: an HTTP-proxy invocation that meets a connection failure, a timeout
\* or a non-success status returns a record whose answer is one diagnostic
\* string naming that failure; on a refused connection the string holds the
\* "Could not connect" marker.
C3_ProxyFailureIsOneDiagnosticString ==
    (ProxyFailure # "none")
      => /\ px.result.status = "returned"
         /\ CASE ProxyFailure = "connection" ->
                   IsStringWith(px.result.answer,
                       {"Error: Could not connect to Ituria JavaScript API server. ",
                        "Error: Could not connect to Anthropic JavaScript API server. "})
              [] ProxyFailure = "timeout" ->
                   IsStringWith(px.result.answer,
                       {"Error: API request timed out (exceeded 30 min.)",
                        "Error: API request timed out (exceeded 5 min.)"})
              [] ProxyFailure = "status" ->
                   IsStringWith(px.result.answer, {"API Error "})

\* C4: when the model call of a direct-model target raises, the target
\* returns a record whose answer is a string describing the failure.
C4_ModelErrorBecomesAnswer ==
    (dm.pc = "done" /\ dm.outcome.kind = "raises")
      => /\ dm.result.status = "returned"
         /\ dm.result.answer # <<>>

\* C5: when the agent target cannot connect to the tool subprocess, the
\* answer returned is the diagnostic itself: no retrieval call is made and
\* the final model call is not made on the failed-connection text.
C5_ConnectFailureIsTheAnswer ==
    (pc = "done" /\ evidence.kind = "failed_to_connect")
      => /\ answer.status = "returned"
         /\ answer.kind = "error"
         /\ calls = <<>>
         /\ ~llm.called

\* C6: in an invocation of the agent target the connection is acquired at
\* most once and, when the invocation has returned, neither the session nor
\* the subprocess channel is open.
C6_ConnectionReleased ==
    /\ connects <= 1
    /\ pc = "done" => (session # "connected" /\ channel # "open")

\* the get_commentaries calls of the invocation
CommentaryCalls == {i \in DOMAIN calls : calls[i].tool = "get_commentaries"}
\* the invocation ended, every get_commentaries call failed and no other
\* tool call did: both searches and every read succeeded and no result
\* failed to serialise
OnlyCommentariesFailed ==
    /\ pc = "done"
    /\ world.commentaries < 0
    /\ world.semantic.shape # "error" /\ world.keywords.shape # "error"
    /\ \A i \in DOMAIN calls :
           calls[i].tool = "read_text" => calls[i].reference \notin world.badRefs
    /\ world.unserializable = "none"
    /\ connects = 1 /\ session # "disconnected"

\* C7: when commentary retrieval is the only thing that fails, the agent
\* target still makes the final model call on the evidence of both searches
\* and of every full text read, and returns the model's stripped reply, which
\* is not empty unless the reply is blank.
C7_CommentaryFailureKeepsEvidence ==
    OnlyCommentariesFailed
      => /\ llm.called
         /\ llm.prompt.kind = "blob"
         /\ llm.prompt.search_results = <<"semantic", "keywords">>
         /\ llm.prompt.full_texts = Take(refs, MaxReferences)
         /\ llm.prompt.commentaries = <<>>
         /\ answer.status = "returned"
         /\ llm.outcome = "text"
              => /\ answer.kind = "llm"
                 /\ answer.text = Strip(llm.reply)
                 /\ (\E k \in DOMAIN llm.reply : llm.reply[k] \notin Whitespace)
                      => answer.text # <<>>

\* C7's case: five commentary requests failed after eight full texts were
\* read, and the model replied.
C7_Witness ==
    /\ OnlyCommentariesFailed
    /\ Cardinality(CommentaryCalls) = MaxCommentaryRefs
    /\ Len(full_texts) = MaxReferences
    /\ llm.outcome = "text"
    /\ answer.text # <<>>

\* a row with a question, an answer and the query type '1'
Present(cell) == cell.some /\ cell.v # <<>>
ValidRow(row) ==
    /\ Present(row.query) /\ Present(row.target)
    /\ row.type.some /\ row.type.v = <<"1">>
RECURSIVE ValidRows(_)
ValidRows(rs) ==
    IF rs = <<>> THEN <<>>
    ELSE (IF ValidRow(Head(rs)) THEN <<Head(rs)>> ELSE <<>>)
         \o ValidRows(Tail(rs))

\* C8: the dataset holds one entry per row that has a question, an answer
\* and the query type '1', and none for any other row, wherever the row
\* stands in the input: a row of query type "2" adds nothing.
C8_OnlyValidRowsKept ==
    /\ Len(dataset) = Len(ValidRows(rows))
    /\ \A i \in DOMAIN dataset :
           dataset[i].question = Strip(ValidRows(rows)[i].query.v)

\* C8's case: a row of query type "2" with a question and an answer was
\* read before a valid row.
C8_Witness ==
    /\ Len(rows) = 2
    /\ rows[1].type = Cell(<<"2">>)
    /\ Present(rows[1].query) /\ Present(rows[1].target)
    /\ ValidRow(rows[2])
    /\ Len(dataset) = 1

\* C9: the file written and read back holds one record per valid row, in
\* input order, pairing the row's trimmed question with its trimmed answer,
\* followed by a blank line and the source when the row has one.
C9_RoundTrip ==
    (dpc = "loaded")
      => /\ Len(reparsed) = Len(ValidRows(rows))
         /\ \A i \in DOMAIN reparsed :
              LET row == ValidRows(rows)[i]
              IN  /\ reparsed[i].question = Strip(row.query.v)
                  /\ reparsed[i].answer =
                        IF Present(row.source)
                        THEN Strip(row.target.v) \o <<"\n", "\n">> \o row.source.v
                        ELSE Strip(row.target.v)

\* C9's case: two valid rows whose texts hold quotes, backslashes and
\* newlines were written and read back.
C9_Witness ==
    /\ dpc = "loaded"
    /\ Len(reparsed) = 2
    /\ Len(rows) = 2
    /\ rows[1].source # rows[2].source
    /\ "\\" \in Range(reparsed[1].answer)
    /\ "\"" \in Range(reparsed[1].question)

\* `kw` occurs in q when letter case is ignored
ContainsIgnoringCase(q, kw) ==
    \E i \in 1..(Len(q) + 1) :
        /\ i + Len(kw) - 1 <= Len(q)
        /\ \A k \in 1..Len(kw) : LowerChar(q[i + k - 1]) = LowerChar(kw[k])
ExpectedTemplateAnswer(q) ==
    IF ContainsIgnoringCase(q, KwDivreiYoel) \/ ContainsIgnoringCase(q, KwDivreyYoel)
    THEN "This question relates to Divrei Yoel, a collection of Hasidic teachings. I would need to consult the specific text to provide an accurate answer."
    ELSE IF ContainsIgnoringCase(q, KwMoses) \/ ContainsIgnoringCase(q, KwMoshe)
    THEN "This question concerns Moses (Moshe Rabbenu), the greatest of the prophets and leader of the Jewish people."
    ELSE IF ContainsIgnoringCase(q, KwPrayer) \/ ContainsIgnoringCase(q, KwTefillah)
    THEN "This relates to Jewish prayer and spiritual practice. Prayer is a fundamental aspect of Jewish worship."
    ELSE "This appears to be a Torah-related question that would require careful study of the relevant sources to answer properly."

\* C10: the template target answers with the canned string of the first
\* keyword test that matches the question, letter case ignored, in the
\* order Divrei Yoel, Moses, prayer, else with the fallback; the question
\* in upper case and in lower case gets the same answer; "Who was Moses?"
\* gets the Moses answer.
C10_TemplateAnswer ==
    (tpl.status = "returned")
      => /\ tpl.answer = ExpectedTemplateAnswer(tpl.inputs.question)
         /\ \A q \in {Upper(tpl.inputs.question), Lower(tpl.inputs.question)} :
                simple_template_response([has |-> TRUE, question |-> q]).answer
                    = tpl.answer
         /\ tpl.inputs.question = WhoWasMoses
              => tpl.answer = "This question concerns Moses (Moshe Rabbenu), the greatest of the prophets and leader of the Jewish people."

\* C10's case: the question "Who was Moses?" was answered.
C10_Witness ==
    /\ tpl.status = "returned"
    /\ tpl.inputs.question = WhoWasMoses
    /\ tpl.answer = MosesAnswer

----------------------------------------------------------------------------
(* The command line and the dataset setup of the experiment runner.        *)

ListMode == proc.argv.n >= 1 /\ proc.argv.first = "list"
SelectedTarget ==
    IF proc.argv.n >= 1 THEN proc.argv.first ELSE "anthropic_sonnet"
SelectedEvaluators ==
    IF proc.argv.n >= 2
    THEN IF proc.argv.second = <<>> THEN {""}
         ELSE Range(proc.argv.second) \ {","}
    ELSE {"correctness"}
UnknownTarget == ~ListMode /\ SelectedTarget \notin RegisteredTargets
UnknownEvaluator ==
    ~ListMode /\ \E n \in SelectedEvaluators : n \notin RegisteredEvaluators

\* The lines of standard output that report an error.
ErrorLines == {i \in DOMAIN proc.stdout : Head(proc.stdout[i]) = "Error: "}
\* Line i names one of `unknown` as not found and every name of `valid`.
Names(i, unknown, valid) ==
    /\ \E n \in unknown : n \in Range(Tail(proc.stdout[i]))
    /\ valid \subseteq Range(proc.stdout[i])

\* C11: in a run of the command line whose target name or one of whose
\* evaluator names is not registered, client.evaluate is never called and the
\* process ends with a non-zero status; once the module-level setup has let
\* the command line run, exactly one error is printed, it names the unknown
\* name and every valid option, and it is the target's whenever the target
\* name is unknown, whatever the evaluator names are.
C11_UnknownSelectionExits ==
    (proc.pc # "none" /\ (UnknownTarget \/ UnknownEvaluator)) =>
        /\ proc.evaluate = <<>>
        /\ proc.pc # "evaluate"
        /\ proc.pc = "exited" =>
            /\ proc.exit # 0
            /\ proc.uncaught = "" =>
                /\ proc.exit = 1
                /\ Cardinality(ErrorLines) = 1
                /\ \A i \in ErrorLines :
                     /\ i = Len(proc.stdout) - 1
                     /\ IF UnknownTarget
                        THEN /\ Names(i, {SelectedTarget}, RegisteredTargets)
                             /\ proc.stdout[i][2] = "Target function '"
                             /\ proc.evaluators = <<>>
                        ELSE /\ Names(i, SelectedEvaluators \ RegisteredEvaluators,
                                      RegisteredEvaluators)
                             /\ proc.stdout[i][2] = "Evaluator '"

\* Both the target name and an evaluator name unknown, the dataset found on
\* the service by a second run, the process ended by the command line.
C11_Witness ==
    /\ UnknownTarget /\ UnknownEvaluator
    /\ proc.pc = "exited" /\ proc.uncaught = "" /\ proc.exit = 1
    /\ runs = 2 /\ proc.dataset # NoDataset
    /\ ErrorLines # {}

\* The process is past the dataset setup: the command line runs or has run.
PastSetup(p) ==
    p.pc \in {"main", "target", "evaluators", "evaluate"} \/ p.evaluate # <<>>

\* C12: over any sequence of runs, the dataset setup of a run that starts
\* while the named dataset exists creates nothing and goes on with the
\* existing dataset as its handle (it ends the run only when listing the
\* datasets itself fails); a setup ends the run only when it has not created
\* the dataset with its examples and has not found it by name (the listing
\* failed or the service holds no dataset of the name); past the setup the
\* handle is the dataset the service holds, never None; and the name is never
\* created twice.
C12_DatasetReused ==
    [][ /\ (proc.pc = "setup" /\ service.exists) =>
             /\ service' = service
             /\ IF proc'.pc = "exited"
                THEN proc'.uncaught = "list_datasets"
                ELSE proc'.pc = "main" /\ proc'.dataset = service.id
        /\ (proc.pc = "setup" /\ proc'.pc = "exited") =>
             /\ proc'.exit # 0
             /\ ~(~service.exists /\ service'.exists /\ service'.examples)
             /\ \/ proc'.uncaught = "list_datasets"
                \/ /\ proc'.uncaught = "Could not create or find dataset"
                   /\ ~service'.exists
        /\ PastSetup(proc') =>
             /\ proc'.dataset # NoDataset
             /\ service'.exists /\ proc'.dataset = service'.id
        /\ service'.created <= 1
      ]_vars

\* A second run that found the dataset the first run created and went on to
\* the experiment.
C12_Witness ==
    /\ runs = 2 /\ service.created = 1
    /\ proc.evaluate # <<>> /\ proc.dataset = service.id
    /\ Head(proc.stdout) = <<"Dataset might already exist: ">>

----------------------------------------------------------------------------
(* The phases of the multi-phase agent.                                    *)

\* The calls of a tool, as positions in `calls`.
CallsOf(tool) == {i \in DOMAIN calls : calls[i].tool = tool}
\* The read_text calls of the full-text phase: those issued before any
\* commentary was asked for.
FullTextReads ==
    {i \in CallsOf("read_text") : \A j \in CallsOf("get_commentaries") : i < j}
\* The read_text calls of the commentary phase.
CommentaryReads == CallsOf("read_text") \ FullTextReads
Distinct(s) == \A i, j \in DOMAIN s : i # j => s[i] # s[j]
\* what a search result lists in its top n hits
TopReferences(result, n) ==
    IF result.shape = "list"
    THEN {result.items[i] : i \in 1..Min(n, Len(result.items))} \ {NoReference}
    ELSE {}

\* C13: the candidate list holds distinct references only, each from the top
\* 5 hits of the semantic or of the keyword search; at most 8 full-text reads
\* are issued and no reference is read twice in the full-text phase.
C13_DistinctCandidates ==
    /\ Distinct(refs)
    /\ Range(refs) \subseteq TopReferences(world.semantic, 5)
                             \cup TopReferences(world.keywords, 5)
    /\ Cardinality(FullTextReads) <= 8
    /\ \A i, j \in FullTextReads :
           i # j => calls[i].reference # calls[j].reference

\* The search of the invocation is past the full-text phase: a later phase
\* runs or the evidence was returned, or the search has ended in a run where
\* every result can be serialised.
ReadPhaseDone ==
    \/ pc \in {"commentaries", "commentary_text"}
    \/ evidence.kind = "blob"
    \/ /\ pc \in {"finally", "llm", "except", "done"}
       /\ world.unserializable = "none"
\* The references of the calls at the positions I, in the order issued.
RECURSIVE ReferencesOf(_, _)
ReferencesOf(I, i) ==
    IF i > Len(calls) THEN <<>>
    ELSE (IF i \in I THEN <<calls[i].reference>> ELSE <<>>) \o ReferencesOf(I, i + 1)
\* The first n candidates, as a slice is claimed to be.
FirstCandidates(n) == [i \in 1..(IF Len(refs) < n THEN Len(refs) ELSE n) |-> refs[i]]
\* Of a sequence of references, those whose read succeeds.
RECURSIVE Readable(_)
Readable(s) ==
    IF s = <<>> THEN <<>>
    ELSE (IF Head(s) \in world.badRefs THEN <<>> ELSE <<Head(s)>>) \o Readable(Tail(s))

\* C14: in the full-text phase read_text is called once for each of the first
\* 8 candidates, in order, whether or not earlier reads failed; the full
\* texts collected, and the references passed on to commentary retrieval, are
\* exactly those of the reads that succeeded, so that a reference whose read
\* failed is in neither and no commentary is asked for it.
C14_FailedReadSkipped ==
    /\ pc = "read" =>
         /\ ReferencesOf(FullTextReads, 1) = SubSeq(FirstCandidates(8), 1, idx - 1)
         /\ full_texts = Readable(SubSeq(FirstCandidates(8), 1, idx - 1))
    /\ ReadPhaseDone =>
         /\ ReferencesOf(FullTextReads, 1) = FirstCandidates(8)
         /\ full_texts = Readable(FirstCandidates(8))
         /\ commentaries_to_read = full_texts
    /\ \A i \in FullTextReads :
         calls[i].reference \in world.badRefs =>
           /\ calls[i].reference \notin Range(full_texts)
           /\ calls[i].reference \notin Range(commentaries_to_read)
           /\ \A j \in CallsOf("get_commentaries") :
                  calls[j].reference # calls[i].reference
           /\ evidence.kind = "blob" =>
                calls[i].reference \notin Range(evidence.full_texts)

\* A read failed, a later read of the phase succeeded, commentaries were
\* asked for and the evidence was returned.
C14_Witness ==
    /\ evidence.kind = "blob" /\ evidence.full_texts # <<>>
    /\ CallsOf("get_commentaries") # {}
    /\ \E i, j \in FullTextReads :
          /\ i < j
          /\ calls[i].reference \in world.badRefs
          /\ calls[j].reference \notin world.badRefs

\* The get_commentaries call a commentary read at position i belongs to: the
\* last one issued before it.
RequestOf(i) ==
    CHOOSE g \in CallsOf("get_commentaries") :
        g < i /\ \A h \in CallsOf("get_commentaries") : h < i => h <= g
\* The references of the full-text phase whose read succeeded, in the order
\* they were read.
SuccessfullyRead == Readable(ReferencesOf(FullTextReads, 1))

\* C15: the commentary requests are, in order, for the first references
\* successfully read in the full-text phase, at most 5 of them (exactly the
\* first 5, or all when fewer, once the evidence is returned); and the
\* commentary texts read after a request are among the top 2 commentary hits
\* of its reference, at most 2 per request.
C15_CommentaryBounds ==
    LET requested == ReferencesOf(CallsOf("get_commentaries"), 1) IN
    /\ Len(requested) <= 5
    /\ Len(requested) <= Len(SuccessfullyRead)
    /\ \A k \in DOMAIN requested : requested[k] = SuccessfullyRead[k]
    /\ evidence.kind = "blob" =>
         Len(requested) = (IF Len(SuccessfullyRead) < 5
                           THEN Len(SuccessfullyRead) ELSE 5)
    /\ \A i \in CommentaryReads :
         calls[i].reference \in
             TopReferences(get_commentaries(world, calls[RequestOf(i)].reference), 2)
    /\ \A g \in CallsOf("get_commentaries") :
         Cardinality({i \in CommentaryReads : RequestOf(i) = g}) <= 2

\* More than 5 references read successfully, each with more than 2
\* commentary hits: 5 requests and 10 commentary reads, evidence returned.
C15_Witness ==
    /\ evidence.kind = "blob"
    /\ Len(SuccessfullyRead) > 5
    /\ world.commentaries > 2
    /\ Cardinality(CallsOf("get_commentaries")) = 5
    /\ Cardinality(CommentaryReads) = 10

\* The searches of the invocation.
SearchCalls == CallsOf("semantic_search") \cup CallsOf("keywords_search")
\* The read_text calls issued before position g.
ReadsBefore(g) == {i \in CallsOf("read_text") : i < g}

\* C16: no read_text call is issued before a search call; when a commentary
\* request is issued every one of the first 8 candidates has been read; and
\* when the final model call has been issued no retrieval call follows it and
\* neither the session nor the subprocess channel is open.
C16_PhasesSequential ==
    /\ \A i \in CallsOf("read_text"), s \in SearchCalls : s < i
    /\ \A g \in CallsOf("get_commentaries") :
         /\ \A s \in SearchCalls : s < g
         /\ \E h \in CallsOf("get_commentaries") :
              /\ h <= g
              /\ ReferencesOf(ReadsBefore(h), 1) = FirstCandidates(8)
    /\ llm.called =>
         /\ pc = "done"
         /\ session # "connected"
         /\ channel # "open"

\* The result of the call at position i was an error.
ReturnedError(i) ==
    CASE calls[i].tool = "semantic_search" -> ~IsOk(semantic_search(world))
      [] calls[i].tool = "keywords_search" -> ~IsOk(keywords_search(world))
      [] calls[i].tool = "read_text" -> ~IsOk(read_text(world, calls[i].reference))
      [] calls[i].tool = "get_commentaries" ->
             ~IsOk(get_commentaries(world, calls[i].reference))

\* C17: the HTTP-proxy target sends one POST per invocation, whatever its
\* outcome, and the agent target issues no tool call with the arguments of
\* an earlier call of the invocation that returned an error.
C17_NoReissue ==
    /\ Len(px.posts) <= 1
    /\ (px.pc = "done" /\ px.inputs.has) => Len(px.posts) = 1
    /\ \A i, j \in DOMAIN calls :
         (i < j /\ ReturnedError(i)) => calls[j] # calls[i]

\* The bounds on the tool calls of one invocation.
CallBounds ==
    /\ Cardinality(CallsOf("semantic_search")) <= 1
    /\ Cardinality(CallsOf("keywords_search")) <= 1
    /\ Cardinality(FullTextReads) <= 8
    /\ Cardinality(CallsOf("get_commentaries")) <= 5
    /\ Cardinality(CommentaryReads) <= 10
    /\ Len(calls) <= 25
\* ituria_agent_search is running.
Searching ==
    pc \in {"semantic", "keywords", "read", "commentaries", "commentary_text",
            "finally"}
\* ituria_agent_search has ended after calling tools.
SearchEnded == pc \in {"llm", "except", "done"} /\ calls # <<>>
\* What is left of the search at most: it decreases with every step.
Remaining(p, i, c) ==
    CASE p = "semantic" -> 100
      [] p = "keywords" -> 90
      [] p = "read" -> 70 + (9 - i)
      [] p = "commentaries" -> 20 + 4 * (6 - i) + 3
      [] p = "commentary_text" -> 20 + 4 * (6 - i) + (3 - c)
      [] p = "finally" -> 10
      [] OTHER -> 0

====
